---- MODULE Spec2Model ----
(***************************************************************************)
(* Model of ax/modelbridge/generation_node_input_constructors.py: the      *)
(* NodeInputConstructors enum (string-keyed dispatch to module functions)  *)
(* and the four input constructors consume_all_n, repeat_arm_n,            *)
(* remaining_n and set_target_trial, with the helper _get_default_n.       *)
(*                                                                         *)
(* Python values are tagged records [tag, val]: None is tag "None", an int *)
(* is tag "int".  A call outcome is a record saying whether the call       *)
(* returned or raised, and what.                                           *)
(***************************************************************************)
EXTENDS Integers, Sequences, FiniteSets, TLC

VARIABLES previous_node, next_node, gs_gen_call_kwargs, experiment, registry, last,
          stages

vars == <<previous_node, next_node, gs_gen_call_kwargs, experiment, registry, last, stages>>

inputs == <<previous_node, next_node, gs_gen_call_kwargs, experiment, registry>>

----------------------------------------------------------------------------
(* Bounds of the explored input space                                      *)

MaxN == 11
MaxDefaultN == 2
MaxGrs == 2
MaxTrials == 2
MaxStages == 3

(* Totals outside 0..MaxN: a negative one and those of the documented      *)
(* examples (n = 20, n = 100)                                              *)
SampleN == {-7, 20, 100}

(* Total-concurrent-arms values an experiment may carry: non-positive      *)
(* ones, 1, and one above the 5/6 step of the repeat ladder                *)
SampleProp == {-1, 0, 1, 7}

(* Arm counts of a generation result: none, one, and those that make up    *)
(* the documented examples (3 + 1 = 4, 12, and 5 with 3)                   *)
SampleArms == {0, 1, 3, 5, 12}

----------------------------------------------------------------------------
(* Python values                                                           *)

None == [tag |-> "None", val |-> 0]

IntV(v) == [tag |-> "int", val |-> v]

IsNone(x) == x.tag = "None"

(* A list value, and None where a list is expected                         *)
ListV(s) == [tag |-> "list", items |-> s]

NoneList == [tag |-> "None", items |-> <<>>]

Max(a, b) == IF a >= b THEN a ELSE b

(* math.ceil(a / b) for b > 0, on integers of either sign                  *)
ceil(a, b) == IF a % b = 0 THEN a \div b ELSE (a \div b) + 1

(* dict.get(key, default)                                                  *)
Get(d, key, default) == IF key \in DOMAIN d THEN d[key] ELSE default

(* sum(len(gr.arms) for gr in grs)                                         *)
RECURSIVE SumArms(_)
SumArms(grs) == IF grs = <<>> THEN 0 ELSE Len(Head(grs).arms) + SumArms(Tail(grs))

----------------------------------------------------------------------------
(* Call outcomes                                                           *)

(* The value ObservationFeatures(parameters=..., trial_index=...)          *)
ObservationFeatures(parameters, trial_index) ==
    [tag |-> "ObservationFeatures", parameters |-> parameters, trial_index |-> trial_index]

(* A call either returns a value or raises exc.  total_n is the            *)
(* constructor's local total_n (None when it has none); default_read tells *)
(* whether next_node.generation_strategy.DEFAULT_N was evaluated.          *)
Returned(val, total_n, default_read) ==
    [kind |-> "return", val |-> val, exc |-> "",
     total_n |-> total_n, default_read |-> default_read]

Raised(exc, total_n, default_read) ==
    [kind |-> "raise", val |-> None, exc |-> exc,
     total_n |-> total_n, default_read |-> default_read]

NoCall == [id |-> "", out |-> Raised("", None, FALSE)]

----------------------------------------------------------------------------
(* Collaborators outside the module                                        *)

TrialStatuses == {"CANDIDATE", "RUNNING", "COMPLETED"}

STATUSES_EXPECTING_DATA == {"RUNNING", "COMPLETED", "EARLY_STOPPED"}

(* Indices (0-based, as experiment.trials is keyed) of qualifying trials   *)
QualifyingTrials(exp) ==
    {i - 1 : i \in {j \in 1..Len(exp.trials) : exp.trials[j] \in STATUSES_EXPECTING_DATA}}

(* The most recent trial in a data-bearing status, or None                 *)
get_target_trial_index(exp) ==
    IF QualifyingTrials(exp) = {} THEN None
    ELSE IntV(CHOOSE k \in QualifyingTrials(exp) : \A m \in QualifyingTrials(exp) : m <= k)

----------------------------------------------------------------------------
(* Helper methods for input constructors                                   *)

(* As _get_default_n, with DEFAULT_N // 10 for DEFAULT_N * 10              *)
_get_default_n_floordiv(exp, node) ==
    LET total_concurrent_arms == Get(exp._properties, "total_concurrent_arms", None)
    IN  IF ~IsNone(total_concurrent_arms)
        THEN [value |-> total_concurrent_arms.val, default_read |-> FALSE]
        ELSE [value |-> node.DEFAULT_N \div 10, default_read |-> TRUE]

(* As _get_default_n, testing the property for truth instead of for None   *)
_get_default_n_truthy(exp, node) ==
    LET total_concurrent_arms == Get(exp._properties, "total_concurrent_arms", None)
    IN  IF ~IsNone(total_concurrent_arms) /\ total_concurrent_arms.val # 0
        THEN [value |-> total_concurrent_arms.val, default_read |-> FALSE]
        ELSE [value |-> node.DEFAULT_N * 10, default_read |-> TRUE]

_get_default_n(exp, node) ==
    LET total_concurrent_arms == Get(exp._properties, "total_concurrent_arms", None)
    IN  IF ~IsNone(total_concurrent_arms)
        THEN [value |-> total_concurrent_arms.val, default_read |-> FALSE]
        ELSE [value |-> node.DEFAULT_N * 10, default_read |-> TRUE]

----------------------------------------------------------------------------
(* The input constructors                                                  *)

(* As set_target_trial, testing the index for truth instead of for None    *)
set_target_trial_truthy(prev, node, kwargs, exp) ==
    LET target_trial_idx == get_target_trial_index(exp)
    IN  IF IsNone(target_trial_idx) \/ target_trial_idx.val = 0
        THEN Raised("AxGenerationException", None, FALSE)
        ELSE Returned(ObservationFeatures(<<>>, target_trial_idx), None, FALSE)

(* As set_target_trial, returning None where it raises                     *)
set_target_trial_none(prev, node, kwargs, exp) ==
    LET target_trial_idx == get_target_trial_index(exp)
    IN  IF IsNone(target_trial_idx)
        THEN Returned(None, None, FALSE)
        ELSE Returned(ObservationFeatures(<<>>, target_trial_idx), None, FALSE)

set_target_trial(prev, node, kwargs, exp) ==
    LET target_trial_idx == get_target_trial_index(exp)
    IN  IF IsNone(target_trial_idx)
        THEN Raised("AxGenerationException", None, FALSE)
        ELSE Returned(ObservationFeatures(<<>>, target_trial_idx), None, FALSE)

(* As consume_all_n, testing "n" for truth instead of for None             *)
consume_all_n_truthy(prev, node, kwargs, exp) ==
    LET d == _get_default_n(exp, node)
    IN  IF ~IsNone(Get(kwargs, "n", None)) /\ Get(kwargs, "n", None).val # 0
        THEN Returned(Get(kwargs, "n", None), Get(kwargs, "n", None), FALSE)
        ELSE Returned(IntV(d.value), IntV(d.value), d.default_read)

consume_all_n(prev, node, kwargs, exp) ==
    LET d == _get_default_n(exp, node)
    IN  IF ~IsNone(Get(kwargs, "n", None))
        THEN Returned(Get(kwargs, "n", None), Get(kwargs, "n", None), FALSE)
        ELSE Returned(IntV(d.value), IntV(d.value), d.default_read)

(* As repeat_arm_n, with total_n % 10 for total_n / 10                     *)
repeat_arm_n_modulo(prev, node, kwargs, exp) ==
    LET d == _get_default_n(exp, node)
        explicit == ~IsNone(Get(kwargs, "n", None))
        total_n == IF explicit THEN Get(kwargs, "n", None).val ELSE d.value
        read == IF explicit THEN FALSE ELSE d.default_read
    IN  IF total_n < 6 THEN Returned(IntV(0), IntV(total_n), read)
        ELSE IF total_n <= 10 THEN Returned(IntV(1), IntV(total_n), read)
        ELSE Returned(IntV(total_n % 10), IntV(total_n), read)

(* As repeat_arm_n, rounding total_n / 10 down instead of up               *)
repeat_arm_n_floor(prev, node, kwargs, exp) ==
    LET d == _get_default_n(exp, node)
        explicit == ~IsNone(Get(kwargs, "n", None))
        total_n == IF explicit THEN Get(kwargs, "n", None).val ELSE d.value
        read == IF explicit THEN FALSE ELSE d.default_read
    IN  IF total_n < 6 THEN Returned(IntV(0), IntV(total_n), read)
        ELSE IF total_n <= 10 THEN Returned(IntV(1), IntV(total_n), read)
        ELSE Returned(IntV(total_n \div 10), IntV(total_n), read)

repeat_arm_n(prev, node, kwargs, exp) ==
    LET d == _get_default_n(exp, node)
        explicit == ~IsNone(Get(kwargs, "n", None))
        total_n == IF explicit THEN Get(kwargs, "n", None).val ELSE d.value
        read == IF explicit THEN FALSE ELSE d.default_read
    IN  IF total_n < 6 THEN Returned(IntV(0), IntV(total_n), read)
        ELSE IF total_n <= 10 THEN Returned(IntV(1), IntV(total_n), read)
        ELSE Returned(IntV(ceil(total_n, 10)), IntV(total_n), read)

(* As remaining_n, counting the arms of the latest generation result only  *)
remaining_n_last_only(prev, node, kwargs, exp) ==
    LET grs_this_gen == Get(kwargs, "grs_this_gen", ListV(<<>>))
        d == _get_default_n(exp, node)
        explicit == ~IsNone(Get(kwargs, "n", None))
        total_n == IF explicit THEN Get(kwargs, "n", None).val ELSE d.value
        read == IF explicit THEN FALSE ELSE d.default_read
        allocated == IF grs_this_gen.items = <<>> THEN 0
                     ELSE Len(grs_this_gen.items[Len(grs_this_gen.items)].arms)
    IN  IF grs_this_gen.tag = "None"
        THEN Raised("TypeError", IntV(total_n), read)
        ELSE Returned(IntV(Max(total_n - allocated, 0)), IntV(total_n), read)

(* As remaining_n, indexing gs_gen_call_kwargs["grs_this_gen"] without a   *)
(* default                                                                 *)
remaining_n_keyerror(prev, node, kwargs, exp) ==
    LET grs_this_gen == Get(kwargs, "grs_this_gen", NoneList)
        d == _get_default_n(exp, node)
        explicit == ~IsNone(Get(kwargs, "n", None))
        total_n == IF explicit THEN Get(kwargs, "n", None).val ELSE d.value
        read == IF explicit THEN FALSE ELSE d.default_read
    IN  IF "grs_this_gen" \notin DOMAIN kwargs
        THEN Raised("KeyError", None, FALSE)
        ELSE IF grs_this_gen.tag = "None"
        THEN Raised("TypeError", IntV(total_n), read)
        ELSE Returned(IntV(Max(total_n - SumArms(grs_this_gen.items), 0)),
                      IntV(total_n), read)

(* As remaining_n, without the clamp at 0                                  *)
remaining_n_unclamped(prev, node, kwargs, exp) ==
    LET grs_this_gen == Get(kwargs, "grs_this_gen", ListV(<<>>))
        d == _get_default_n(exp, node)
        explicit == ~IsNone(Get(kwargs, "n", None))
        total_n == IF explicit THEN Get(kwargs, "n", None).val ELSE d.value
        read == IF explicit THEN FALSE ELSE d.default_read
    IN  IF grs_this_gen.tag = "None"
        THEN Raised("TypeError", IntV(total_n), read)
        ELSE Returned(IntV(total_n - SumArms(grs_this_gen.items)), IntV(total_n), read)

remaining_n(prev, node, kwargs, exp) ==
    LET grs_this_gen == Get(kwargs, "grs_this_gen", ListV(<<>>))
        d == _get_default_n(exp, node)
        explicit == ~IsNone(Get(kwargs, "n", None))
        total_n == IF explicit THEN Get(kwargs, "n", None).val ELSE d.value
        read == IF explicit THEN FALSE ELSE d.default_read
    IN  IF grs_this_gen.tag = "None"
        THEN Raised("TypeError", IntV(total_n), read)
        ELSE Returned(IntV(Max(total_n - SumArms(grs_this_gen.items), 0)),
                      IntV(total_n), read)

----------------------------------------------------------------------------
(* NodeInputConstructors                                                   *)

ALL_N == "consume_all_n"

REPEAT_N == "repeat_arm_n"

REMAINING_N == "remaining_n"

TARGET_TRIAL_FIXED_FEATURES == "set_target_trial"

NodeInputConstructors == {ALL_N, REPEAT_N, REMAINING_N, TARGET_TRIAL_FIXED_FEATURES}

(* Names a member value could carry without being one of the four: a name  *)
(* the module does not define, the imported module object sys, and the     *)
(* two-parameter helper _get_default_n.                                    *)
FabricatedTokens == {"not_a_method", "sys", "_get_default_n"}

Tokens == NodeInputConstructors \cup FabricatedTokens

(* Attributes of sys.modules[__name__] and what kind of object each is     *)
ModuleAttributes ==
    [name \in NodeInputConstructors \cup {"sys", "_get_default_n"} |->
        IF name \in NodeInputConstructors THEN "constructor"
        ELSE IF name = "sys" THEN "module"
        ELSE "helper"]

(* method(previous_node=..., next_node=..., gs_gen_call_kwargs=...,        *)
(*        experiment=...) on the object getattr found under name           *)
Invoke(reg, name, prev, node, kwargs, exp) ==
    IF reg[name] # "constructor" THEN Raised("TypeError", None, FALSE)
    ELSE IF name = "consume_all_n" THEN consume_all_n(prev, node, kwargs, exp)
    ELSE IF name = "repeat_arm_n" THEN repeat_arm_n(prev, node, kwargs, exp)
    ELSE IF name = "remaining_n" THEN remaining_n(prev, node, kwargs, exp)
    ELSE set_target_trial(prev, node, kwargs, exp)

(* NodeInputConstructors.__call__                                          *)
__call__(self, reg, prev, node, kwargs, exp) ==
    IF self \notin DOMAIN reg
    THEN Raised("ValueError", None, FALSE)
    ELSE Invoke(reg, self, prev, node, kwargs, exp)

(* InputConstructorPurpose                                                 *)
InputConstructorPurpose == {"n", "fixed_features"}

----------------------------------------------------------------------------
(* Input space                                                             *)

NValues == {None} \cup {IntV(v) : v \in (0..MaxN) \cup SampleN}

PropValues == {None} \cup {IntV(v) : v \in SampleProp}

Arms(k) == [i \in 1..k |-> "arm"]

GeneratorRuns == {[arms |-> Arms(k)] : k \in SampleArms}

RECURSIVE SeqsUpTo(_, _)
SeqsUpTo(S, n) ==
    IF n = 0 THEN {<<>>}
    ELSE SeqsUpTo(S, n - 1) \cup {Append(s, x) : s \in SeqsUpTo(S, n - 1), x \in S}

GrsValues == {NoneList} \cup {ListV(s) : s \in SeqsUpTo(GeneratorRuns, MaxGrs)}

(* Mappings with any subset of the two keys the constructors look up       *)
KwargsValues ==
    {<<>>}
    \cup {[k \in {"n"} |-> n] : n \in NValues}
    \cup {[k \in {"grs_this_gen"} |-> g] : g \in GrsValues}
    \cup {[n |-> n, grs_this_gen |-> g] : n \in NValues, g \in GrsValues}

PropertiesValues == {<<>>} \cup {[k \in {"total_concurrent_arms"} |-> p] : p \in PropValues}

TrialsValues == SeqsUpTo(TrialStatuses, MaxTrials)

NodeValues == {[node_name |-> "next", DEFAULT_N |-> d] : d \in 1..MaxDefaultN}

----------------------------------------------------------------------------
(* State machine                                                           *)

(* stages tells, for each generation result of the round, what sized it:   *)
(* "prior" for a result the round was entered with, else the constructor   *)
(* whose returned count the stage generated.                               *)
PriorStages(kwargs) ==
    [i \in 1..Len(Get(kwargs, "grs_this_gen", ListV(<<>>)).items) |-> "prior"]

(* The count constructors never read the trials and set_target_trial reads *)
(* nothing else, so the arguments of a dispatch are drawn either with      *)
(* every keyword mapping, property mapping and next node on an experiment  *)
(* without trials, or with every trial history under an empty keyword      *)
(* mapping and no properties.                                              *)
Init ==
    /\ previous_node = None
    /\ registry = ModuleAttributes
    /\ last = NoCall
    /\ \/ /\ next_node \in NodeValues
          /\ gs_gen_call_kwargs \in KwargsValues
          /\ experiment \in {[trials |-> <<>>, _properties |-> p] : p \in PropertiesValues}
       \/ /\ next_node \in NodeValues
          /\ gs_gen_call_kwargs = <<>>
          /\ experiment \in {[trials |-> t, _properties |-> <<>>] : t \in TrialsValues}
    /\ stages = PriorStages(gs_gen_call_kwargs)

(* As Dispatch, with remaining_n taking grs_this_gen out of the keyword    *)
(* mapping (dict.pop) instead of reading it (dict.get)                     *)
Dispatch_popping(self) ==
    /\ last' = [id |-> self,
                out |-> __call__(self, registry, previous_node, next_node,
                                 gs_gen_call_kwargs, experiment)]
    /\ gs_gen_call_kwargs' =
            IF self = "remaining_n"
            THEN [k \in DOMAIN gs_gen_call_kwargs \ {"grs_this_gen"} |-> gs_gen_call_kwargs[k]]
            ELSE gs_gen_call_kwargs
    /\ UNCHANGED <<previous_node, next_node, experiment, registry, stages>>

(* One dispatch through the enum member whose value is self                *)
Dispatch(self) ==
    /\ last' = [id |-> self,
                out |-> __call__(self, registry, previous_node, next_node,
                                 gs_gen_call_kwargs, experiment)]
    /\ UNCHANGED <<inputs, stages>>

Next == \E self \in Tokens : Dispatch(self)

Spec == Init /\ [][Next]_vars

----------------------------------------------------------------------------
(* A round of the calling pipeline: each stage is sized by a dispatch and  *)
(* its generation result joins grs_this_gen before the next dispatch       *)

(* Prior results a round is entered with: none, or 5 arms and then 3       *)
RoundStarts == {<<>>, <<[arms |-> Arms(5)], [arms |-> Arms(3)]>>}

RoundKwargsValues ==
    {[k \in {"grs_this_gen"} |-> ListV(g)] : g \in RoundStarts}
    \cup {[n |-> n, grs_this_gen |-> ListV(g)] : n \in NValues, g \in RoundStarts}

InitRound ==
    /\ previous_node = None
    /\ registry = ModuleAttributes
    /\ last = NoCall
    /\ next_node \in NodeValues
    /\ gs_gen_call_kwargs \in RoundKwargsValues
    /\ experiment \in {[trials |-> <<>>, _properties |-> p] : p \in PropertiesValues}
    /\ stages = PriorStages(gs_gen_call_kwargs)

(* The next stage generates exactly the count the latest dispatch returned *)
Generate ==
    /\ last.id \in {ALL_N, REPEAT_N, REMAINING_N}
    /\ last.out.kind = "return"
    /\ last.out.val.val >= 0
    /\ Len(stages) < MaxStages
    /\ gs_gen_call_kwargs' =
            [gs_gen_call_kwargs EXCEPT !["grs_this_gen"] =
                ListV(Append(@.items, [arms |-> Arms(last.out.val.val)]))]
    /\ stages' = Append(stages, last.id)
    /\ last' = NoCall
    /\ UNCHANGED <<previous_node, next_node, experiment, registry>>

NextRound == (\E self \in Tokens : Dispatch(self)) \/ Generate

SpecRound == InitRound /\ [][NextRound]_vars

----------------------------------------------------------------------------
(* What the inputs of the current call say                                 *)

CountConstructors == {ALL_N, REPEAT_N, REMAINING_N}

ExplicitN == Get(gs_gen_call_kwargs, "n", None)

HintedArms == Get(experiment._properties, "total_concurrent_arms", None)

DefaultTotal == IF ~IsNone(HintedArms) THEN HintedArms.val ELSE 10 * next_node.DEFAULT_N

ResolvedTotal == IF ~IsNone(ExplicitN) THEN ExplicitN.val ELSE DefaultTotal

PriorResults == Get(gs_gen_call_kwargs, "grs_this_gen", ListV(<<>>))

AlreadyAllocated == IF PriorResults.tag = "list" THEN SumArms(PriorResults.items) ELSE 0

(* The repeat ladder as the documentation states it                        *)
Ladder(T) ==
    IF T < 6 THEN 0
    ELSE IF T <= 10 THEN 1
    ELSE CHOOSE c \in 1..T : 10 * (c - 1) < T /\ T <= 10 * c

----------------------------------------------------------------------------
(* C1: for every resolved total T and every sequence of prior generation   *)
(* results (or none given), remaining_n returns exactly max(T - A, 0) with *)
(* A the sum of the results' arm counts, so never a negative number; T=10  *)
(* gives 6 after 4 arms and 0 after 12 arms.                               *)
RemainingIsClampedDifference ==
    (last.id = REMAINING_N /\ PriorResults.tag = "list") =>
        /\ last.out.kind = "return"
        /\ last.out.val = IntV(Max(ResolvedTotal - AlreadyAllocated, 0))
        /\ last.out.val.val >= 0
        /\ "grs_this_gen" \notin DOMAIN gs_gen_call_kwargs
                => last.out.val.val = Max(ResolvedTotal, 0)
        /\ (ResolvedTotal = 10 /\ AlreadyAllocated = 4) => last.out.val.val = 6
        /\ (ResolvedTotal = 10 /\ AlreadyAllocated = 12) => last.out.val.val = 0

(* remaining_n was called with T = 10 after 12 arms and returned 0         *)
RemainingOverAllocatedSeen ==
    /\ last.id = REMAINING_N
    /\ ResolvedTotal = 10
    /\ AlreadyAllocated = 12
    /\ last.out.kind = "return"
    /\ last.out.val.val = 0

(* C2: repeat_arm_n returns 0 below 6, 1 from 6 to 10 and ceil(T / 10)     *)
(* above 10: 0 at 5, 1 at 6 and 10, 2 at 11 and 20, 10 at 100.             *)
RepeatFollowsLadder ==
    last.id = REPEAT_N =>
        /\ last.out.kind = "return"
        /\ last.out.val = IntV(Ladder(ResolvedTotal))
        /\ ResolvedTotal = 5 => last.out.val.val = 0
        /\ ResolvedTotal \in {6, 10} => last.out.val.val = 1
        /\ ResolvedTotal \in {11, 20} => last.out.val.val = 2
        /\ ResolvedTotal = 100 => last.out.val.val = 10

(* repeat_arm_n was called with T = 20 and returned 2                      *)
RepeatAtTwentySeen ==
    /\ last.id = REPEAT_N
    /\ ResolvedTotal = 20
    /\ last.out.kind = "return"
    /\ last.out.val.val = 2

(* C3: consume_all_n returns a non-None "n" unchanged (0 and values above  *)
(* the experiment's hint included) and the default count exactly when "n"  *)
(* is absent or None; repeat_arm_n and remaining_n resolve their total the *)
(* same way, so all three use the same T on the same inputs.               *)
TotalResolvedAlike ==
    last.id \in CountConstructors =>
        /\ last.out.total_n = IntV(ResolvedTotal)
        /\ ~IsNone(ExplicitN) => last.out.total_n = ExplicitN
        /\ IsNone(ExplicitN) => last.out.total_n = IntV(DefaultTotal)
        /\ last.id = ALL_N => (last.out.kind = "return" /\ last.out.val = last.out.total_n)

(* consume_all_n was called with n = 0 on an experiment hinting 7 arms     *)
ConsumeAllZeroSeen ==
    /\ last.id = ALL_N
    /\ ExplicitN = IntV(0)
    /\ HintedArms = IntV(7)
    /\ last.out.kind = "return"
    /\ last.out.val = IntV(0)

(* C4: without an explicit "n", the default count is the experiment's      *)
(* total-concurrent-arms property verbatim when it is present, read        *)
(* without consulting the next node's DEFAULT_N, and 10 * DEFAULT_N        *)
(* otherwise.                                                              *)
DefaultIsHintOrTenfold ==
    (last.id \in CountConstructors /\ IsNone(ExplicitN)) =>
        /\ ~IsNone(HintedArms) =>
                (last.out.total_n = HintedArms /\ ~last.out.default_read)
        /\ IsNone(HintedArms) =>
                (last.out.total_n = IntV(10 * next_node.DEFAULT_N) /\ last.out.default_read)

(* A default count was taken from a hint of 0 arms                         *)
DefaultFromZeroHintSeen ==
    /\ last.id = ALL_N
    /\ IsNone(ExplicitN)
    /\ HintedArms = IntV(0)
    /\ last.out.val = IntV(0)

(* C5: the default count is a positive integer, at least the per-call      *)
(* default, so consume_all_n without an explicit "n" returns at least 1    *)
(* whatever total-concurrent-arms value the experiment carries.            *)
DefaultAlwaysPositive ==
    (last.id = ALL_N /\ IsNone(ExplicitN)) =>
        /\ last.out.kind = "return"
        /\ last.out.val.val >= next_node.DEFAULT_N
        /\ last.out.val.val >= 1

(* C5 as amended: the default count is at least the per-call default, and  *)
(* so at least 1, when the experiment carries no total-concurrent-arms     *)
(* value or one that is itself at least the per-call default; a carried    *)
(* value below 1 is returned as it is.                                     *)
DefaultPositiveUnlessHintIsNot ==
    (last.id = ALL_N /\ IsNone(ExplicitN)) =>
        /\ last.out.kind = "return"
        /\ (IsNone(HintedArms) \/ HintedArms.val >= next_node.DEFAULT_N) =>
                (last.out.val.val >= next_node.DEFAULT_N /\ last.out.val.val >= 1)
        /\ (~IsNone(HintedArms) /\ HintedArms.val < 1) => last.out.val.val < 1

(* consume_all_n fell back to ten times a per-call default of 2            *)
DefaultTenfoldSeen ==
    /\ last.id = ALL_N
    /\ IsNone(ExplicitN)
    /\ IsNone(HintedArms)
    /\ next_node.DEFAULT_N = 2
    /\ last.out.val = IntV(20)

(* C6: set_target_trial raises AxGenerationException exactly when the      *)
(* trial-selection utility finds no index; for an index k (0 included) it  *)
(* returns ObservationFeatures with empty parameters and trial index k,    *)
(* never one without a trial index.                                        *)
TargetTrialOrGenerationError ==
    last.id = TARGET_TRIAL_FIXED_FEATURES =>
        /\ last.out.kind = "raise" <=> IsNone(get_target_trial_index(experiment))
        /\ last.out.kind = "raise" => last.out.exc = "AxGenerationException"
        /\ last.out.kind = "return" =>
                /\ last.out.val.tag = "ObservationFeatures"
                /\ last.out.val.parameters = <<>>
                /\ last.out.val.trial_index.tag = "int"
                /\ last.out.val.trial_index = get_target_trial_index(experiment)
                /\ last.out.val.trial_index.val \in QualifyingTrials(experiment)

(* set_target_trial found the first of two trials and returned index 0     *)
TargetTrialZeroSeen ==
    /\ last.id = TARGET_TRIAL_FIXED_FEATURES
    /\ experiment.trials = <<"RUNNING", "CANDIDATE">>
    /\ last.out.kind = "return"
    /\ last.out.val.trial_index = IntV(0)

(* The kind of value each member is declared to construct                  *)
DeclaredPurpose(id) == IF id \in CountConstructors THEN "n" ELSE "fixed_features"

ValueTagOf(purpose) == IF purpose = "n" THEN "int" ELSE "ObservationFeatures"

(* C7: for every member and every experiment state, dispatch succeeds and  *)
(* returns an integer for the three count members and an                   *)
(* ObservationFeatures value for set_target_trial.                         *)
DispatchAlwaysSucceeds ==
    last.id \in NodeInputConstructors =>
        /\ last.out.kind = "return"
        /\ last.out.val.tag = ValueTagOf(DeclaredPurpose(last.id))

(* C7 as amended: a dispatch of a member never raises the configuration    *)
(* error and whatever it returns is of the member's declared kind; the     *)
(* count members return whenever the prior-results entry is absent or a    *)
(* sequence, and set_target_trial returns exactly when some trial          *)
(* qualifies and raises AxGenerationException otherwise.                   *)
DispatchReturnsDeclaredPurpose ==
    last.id \in NodeInputConstructors =>
        /\ last.out.exc # "ValueError"
        /\ last.out.kind = "return" =>
                last.out.val.tag = ValueTagOf(DeclaredPurpose(last.id))
        /\ (last.id \in CountConstructors /\ PriorResults.tag = "list") =>
                last.out.kind = "return"
        /\ last.id = TARGET_TRIAL_FIXED_FEATURES =>
                /\ last.out.kind = "return" <=> QualifyingTrials(experiment) # {}
                /\ last.out.kind = "raise" => last.out.exc = "AxGenerationException"

(* set_target_trial was dispatched with the second of two trials running   *)
(* and returned ObservationFeatures for index 1                            *)
TargetTrialDispatchedSeen ==
    /\ last.id = TARGET_TRIAL_FIXED_FEATURES
    /\ experiment.trials = <<"CANDIDATE", "RUNNING">>
    /\ last.out.kind = "return"
    /\ last.out.val.tag = "ObservationFeatures"
    /\ last.out.val.trial_index = IntV(1)

(* The member value names a callable of the constructors module            *)
NamesCallable(id) == id \in DOMAIN registry /\ registry[id] \in {"constructor", "helper"}

(* C8: dispatch raises the configuration error (ValueError) exactly when   *)
(* the member value names no callable of the constructors module; never    *)
(* for the four shipped members, and an error raised inside the            *)
(* constructor reaches the caller unchanged.                               *)
ConfigurationErrorIffNoCallable ==
    last.id # "" =>
        /\ last.out.exc = "ValueError" <=> ~NamesCallable(last.id)
        /\ last.id \in NodeInputConstructors => last.out.exc # "ValueError"
        /\ (last.id = TARGET_TRIAL_FIXED_FEATURES /\ QualifyingTrials(experiment) = {}) =>
                last.out.exc = "AxGenerationException"

(* C9: consume_all_n, repeat_arm_n and remaining_n never raise when "n"    *)
(* is absent, None or an integer and the prior-results entry is absent,    *)
(* None or a sequence.                                                     *)
CountConstructorsNeverRaise ==
    last.id \in CountConstructors => last.out.kind = "return"

(* C9 as amended: the three never raise when "n" is absent, None or an     *)
(* integer and the prior-results entry is absent or a sequence; a missing  *)
(* or None "n" is replaced by the default count and a missing entry counts *)
(* as no arms.  An entry that is None makes remaining_n, and only          *)
(* remaining_n, raise TypeError.                                           *)
CountConstructorsRaiseOnlyOnNoneResults ==
    last.id \in CountConstructors =>
        /\ last.out.kind = "raise" <=> (last.id = REMAINING_N /\ PriorResults.tag = "None")
        /\ last.out.kind = "raise" => last.out.exc = "TypeError"
        /\ IsNone(ExplicitN) => last.out.total_n = IntV(DefaultTotal)
        /\ (last.id = REMAINING_N /\ "grs_this_gen" \notin DOMAIN gs_gen_call_kwargs) =>
                last.out.val = IntV(Max(ResolvedTotal, 0))

(* remaining_n was called with an empty keyword mapping and returned the   *)
(* default count                                                           *)
RemainingOnEmptyKwargsSeen ==
    /\ last.id = REMAINING_N
    /\ gs_gen_call_kwargs = <<>>
    /\ IsNone(HintedArms)
    /\ last.out.kind = "return"
    /\ last.out.val = IntV(10 * next_node.DEFAULT_N)

(* Totals repeat_arm_n is compared at                                      *)
TotalsCompared == ((0 - 2 * MaxN)..(2 * MaxN)) \cup SampleN \cup {t - 1 : t \in SampleN}

(* What repeat_arm_n returns for an explicit total T                       *)
RepeatAt(T) ==
    repeat_arm_n(previous_node, next_node, [n |-> IntV(T)], experiment).val.val

(* C10: repeat_arm_n is monotonically non-decreasing in the resolved       *)
(* total, negative totals and the 5/6 and 10/11 steps included.            *)
RepeatMonotone ==
    (last.id = REPEAT_N /\ last.out.kind = "return") =>
        \A T \in TotalsCompared :
            /\ T <= ResolvedTotal => RepeatAt(T) <= last.out.val.val
            /\ T >= ResolvedTotal => RepeatAt(T) >= last.out.val.val

(* repeat_arm_n returned 1 at T = 10, between 0 at 5 and 2 at 11           *)
RepeatBetweenStepsSeen ==
    /\ last.id = REPEAT_N
    /\ ResolvedTotal = 10
    /\ last.out.val = IntV(1)
    /\ RepeatAt(5) = 0
    /\ RepeatAt(11) = 2

(* Arms held by the first i generation results of the round                *)
PrefixArms(i) == SumArms(SubSeq(PriorResults.items, 1, i))

(* C11: in a round with total T >= 0 entered without prior results, a      *)
(* stage sized by repeat_arm_n (never more than T arms) followed by one    *)
(* sized by remaining_n leaves exactly T arms in the round; wherever the   *)
(* round already holds T arms or more remaining_n returns 0, so a stage it *)
(* sizes adds no arms and such a round stays at T.  With n = 20 after      *)
(* prior results of 5 and 3 arms remaining_n returns 12.                   *)
RoundFillsToTotal ==
    /\ \A i \in 1..Len(stages) :
            /\ stages[i] = REMAINING_N =>
                    PrefixArms(i) = Max(ResolvedTotal, PrefixArms(i - 1))
            /\ (stages[i] = REPEAT_N /\ ResolvedTotal >= 0) =>
                    PrefixArms(i) - PrefixArms(i - 1) <= ResolvedTotal
    /\ (ResolvedTotal >= 0 /\ Len(stages) >= 2
            /\ stages[1] = REPEAT_N /\ stages[2] = REMAINING_N) =>
            /\ PrefixArms(2) = ResolvedTotal
            /\ (\A i \in 3..Len(stages) : stages[i] = REMAINING_N) =>
                    AlreadyAllocated = ResolvedTotal
    /\ (last.id = REMAINING_N /\ AlreadyAllocated >= ResolvedTotal) =>
            (last.out.kind = "return" /\ last.out.val = IntV(0))
    /\ (last.id = REMAINING_N /\ ExplicitN = IntV(20) /\ stages = <<"prior", "prior">>) =>
            last.out.val = IntV(12)

(* A round of 20 holds 2 repeat arms and 18 remaining ones, and a further  *)
(* remaining_n call returned 0                                             *)
RoundFilledSeen ==
    /\ stages = <<REPEAT_N, REMAINING_N>>
    /\ ExplicitN = IntV(20)
    /\ PrefixArms(1) = 2
    /\ AlreadyAllocated = 20
    /\ last.id = REMAINING_N
    /\ last.out.val = IntV(0)

(* C12: a dispatch, returning or raising, leaves the experiment, the       *)
(* keyword mapping with its prior results, both nodes and the registry as  *)
(* they were, so a second dispatch of the same member has the same         *)
(* outcome.                                                                *)
DispatchLeavesInputsAlone ==
    [][/\ inputs' = inputs
       /\ last'.id = last.id => last'.out = last.out]_vars

(* remaining_n raised on a None prior-results entry and the keyword        *)
(* mapping is as it was passed                                             *)
RaisingDispatchKeptInputsSeen ==
    /\ last.id = REMAINING_N
    /\ last.out.exc = "TypeError"
    /\ gs_gen_call_kwargs = [n |-> IntV(3), grs_this_gen |-> NoneList]
    /\ experiment = [trials |-> <<>>, _properties |-> <<>>]

====
